---- MODULE Spec2Model ----
(***************************************************************************)
(* Disaster Response & Relief Coordination System.                         *)
(*                                                                         *)
(* The model covers the simulated environment (environment.py), the       *)
(* goal-driven reactive agent (lab3_goal_event_fsm_agent.py) and the       *)
(* sensor agents (lab2_sensor_agent.py).                                   *)
(*                                                                         *)
(* Numbers.  temperature (Celsius), humidity (%), wind_speed (km/h),       *)
(* air_quality (AQI) and infrastructure_damage (%) are integers in their   *)
(* own unit.  water_level and seismic_activity are kept in TENTHS of their *)
(* unit (water_level 15 is 1.5 m), because the code compares them with     *)
(* 1.5.  A call random.uniform(a, b) or random.randint(a, b) is an input   *)
(* of the step: the step takes the drawn value from a record of draws and  *)
(* requires it to lie in a..b.  Each specification names the finite set of *)
(* draws it explores.                                                      *)
(*                                                                         *)
(* Left out: timestamps (datetime.now()), affected_area and the "details"  *)
(* string of a derived event; nothing in the program reads them back.      *)
(***************************************************************************)
EXTENDS Integers, Sequences, FiniteSets, TLC

VARIABLES
    \* DisasterEnvironment
    event_counter,          \* self.event_counter
    active_disasters,       \* self.active_disasters (a list)
    current_conditions,     \* self.current_conditions[location name]
    \* what the last update_environment() call did
    spawned,                \* the event _generate_disaster returned: <<>> or <<event>>
    before_update_disasters,\* [conditions, event_counter, active_disasters] at the call of _update_disasters
    disasters_to_remove,    \* the local list of _update_disasters
    \* GoalReactiveResponseAgent
    state,                  \* self.state
    trace,                  \* self.trace
    transition_history,     \* self.transition_history
    last_handled_event_ids, \* self.last_handled_event_ids
    \* run()
    pc,                     \* "init", "loop", "done"
    cycles,                 \* the cycles argument of run()
    cycle,                  \* completed iterations of the for loop
    percepts,               \* local of run(): the batch of the last cycle
    events,                 \* local of run(): the derived events of the last cycle
    seen_before,            \* last_handled_event_ids when _derive_events was called
    state_before,           \* self.state when _react was called
    priority_disaster,      \* local of _react: <<>> (None, or not computed) or <<disaster>>
    saved_trace,            \* contents of the trace file: <<>> or <<the lines written>>
    interval_seconds,       \* the interval_seconds argument of run() / monitor_continuously()
    \* lab2: the sensor agents of main() and the asyncio event loop
    sensors,                \* the SensorAgent objects and the position of their tasks
    running                 \* the task the event loop is running: 0 (none) or a sensor's index

envVars == <<event_counter, active_disasters, current_conditions,
             spawned, before_update_disasters, disasters_to_remove>>
agentVars == <<state, trace, transition_history, last_handled_event_ids>>
runVars == <<pc, cycles, cycle, percepts, events, seen_before, state_before,
            priority_disaster, saved_trace>>
sensorVars == <<sensors, running>>
vars == <<envVars, agentVars, runVars, interval_seconds, sensorVars>>

----------------------------------------------------------------------------
(* Bounds *)

\* the greatest cycles argument of run()
Cycles == 2

\* the most sense calls a caller of the environment makes between two
\* update_environment calls
MaxSenseCalls == 3

\* the most iterations the sensors' monitoring loops make together before
\* their duration_seconds have passed
MaxIterations == 3

----------------------------------------------------------------------------
(* environment.py: types *)

DisasterType == {"FLOOD", "EARTHQUAKE", "FIRE", "DROUGHT", "STORM"}

LOW == 1
MODERATE == 2
HIGH == 3
CRITICAL == 4
CATASTROPHIC == 5
Severity == {LOW, MODERATE, HIGH, CRITICAL, CATASTROPHIC}

\* _initialize_locations: the registry, in registration order
AllLocations == <<"Accra", "Kumasi", "Tema", "Tamale", "Cape Coast">>
locations == AllLocations
LocationNames == {locations[i] : i \in 1..Len(locations)}

Max(a, b) == IF a >= b THEN a ELSE b
Min(a, b) == IF a <= b THEN a ELSE b

\* the values random.uniform(a, b) / random.randint(a, b) can return
Between(a, b) == a..b

\* digits of n, least significant last, padded with zeros to at least `width`
RECURSIVE ZeroPad(_, _)
ZeroPad(n, width) ==
    IF n < 10 /\ width <= 1 THEN <<n>>
    ELSE Append(ZeroPad(n \div 10, width - 1), n % 10)

\* f"D{self.event_counter:04d}"
FormatEventId(n) == <<"D">> \o ZeroPad(n, 4)

----------------------------------------------------------------------------
(* environment.py: DisasterEnvironment *)

\* _initialize_conditions, for one location; d holds the four draws
InitialCondition(d) ==
    [temperature      |-> d.temperature,
     humidity         |-> d.humidity,
     wind_speed       |-> d.wind_speed,
     air_quality      |-> d.air_quality,
     seismic_activity |-> 0,
     water_level      |-> 0,
     smoke_detected   |-> FALSE]

InitialDrawOk(d) ==
    /\ d.temperature \in Between(25, 35)
    /\ d.humidity \in Between(60, 90)
    /\ d.wind_speed \in Between(0, 30)
    /\ d.air_quality \in Between(50, 150)

\* update_environment, the loop body "Update base conditions" for one location
DriftDrawOk(d) ==
    /\ d.temperature \in Between(-2, 2)
    /\ d.humidity \in Between(-5, 5)
    /\ d.wind_speed \in Between(-5, 5)
    /\ d.air_quality \in Between(-10, 10)

ClipTemperature(t) == Max(20, Min(45, t))

UpdateBaseCondition(cond, d) ==
    [cond EXCEPT
        !.temperature = ClipTemperature(cond.temperature + d.temperature),
        !.humidity    = Max(30, Min(100, cond.humidity + d.humidity)),
        !.wind_speed  = Max(0, cond.wind_speed + d.wind_speed),
        !.air_quality = Max(0, Min(500, cond.air_quality + d.air_quality))]

UpdateBaseConditions(conds, drift) ==
    [l \in DOMAIN conds |-> UpdateBaseCondition(conds[l], drift[l])]

\* GenerateDrawOk with the infrastructure damage drawn up to 25 x severity
GenerateDrawOk_DamageTimesTwentyFive(g) ==
    /\ g.disaster_type \in DisasterType
    /\ g.location \in LocationNames
    /\ g.severity \in Severity
    /\ g.disaster_type = "FLOOD"      => g.water_level \in Between(10, 50)
    /\ g.disaster_type = "FIRE"       => /\ g.temperature \in Between(10, 30)
                                         /\ g.air_quality \in Between(100, 300)
    /\ g.disaster_type = "EARTHQUAKE" => g.seismic_activity \in Between(30, 80)
    /\ g.disaster_type = "DROUGHT"    => g.temperature \in Between(5, 15)
    /\ g.disaster_type = "STORM"      => g.wind_speed \in Between(50, 150)
    /\ g.casualties \in Between(0, g.severity * 50)
    /\ g.infrastructure_damage \in Between(g.severity * 5, g.severity * 25)
    /\ g.resources_needed.medical_kits \in Between(10, 100)
    /\ g.resources_needed.food_packages \in Between(50, 500)
    /\ g.resources_needed.water_bottles \in Between(100, 1000)
    /\ g.resources_needed.rescue_teams \in Between(2, 20)

\* _generate_disaster: the draws g it makes
GenerateDrawOk(g) ==
    /\ g.disaster_type \in DisasterType
    /\ g.location \in LocationNames
    /\ g.severity \in Severity
    /\ g.disaster_type = "FLOOD"      => g.water_level \in Between(10, 50)
    /\ g.disaster_type = "FIRE"       => /\ g.temperature \in Between(10, 30)
                                         /\ g.air_quality \in Between(100, 300)
    /\ g.disaster_type = "EARTHQUAKE" => g.seismic_activity \in Between(30, 80)
    /\ g.disaster_type = "DROUGHT"    => g.temperature \in Between(5, 15)
    /\ g.disaster_type = "STORM"      => g.wind_speed \in Between(50, 150)
    /\ g.casualties \in Between(0, g.severity * 50)
    /\ g.infrastructure_damage \in Between(g.severity * 5, g.severity * 20)
    /\ g.resources_needed.medical_kits \in Between(10, 100)
    /\ g.resources_needed.food_packages \in Between(50, 500)
    /\ g.resources_needed.water_bottles \in Between(100, 1000)
    /\ g.resources_needed.rescue_teams \in Between(2, 20)

\* _generate_disaster, "Update environmental conditions based on disaster type"
DisasterSideEffect(cond, g) ==
    CASE g.disaster_type = "FLOOD" ->
            [cond EXCEPT !.water_level = g.water_level,
                         !.humidity = Min(100, cond.humidity + 20)]
      [] g.disaster_type = "FIRE" ->
            [cond EXCEPT !.smoke_detected = TRUE,
                         !.temperature = cond.temperature + g.temperature,
                         !.air_quality = cond.air_quality + g.air_quality]
      [] g.disaster_type = "EARTHQUAKE" ->
            [cond EXCEPT !.seismic_activity = g.seismic_activity]
      [] g.disaster_type = "DROUGHT" ->
            [cond EXCEPT !.temperature = cond.temperature + g.temperature,
                         !.humidity = Max(20, cond.humidity - 30)]
      [] g.disaster_type = "STORM" ->
            [cond EXCEPT !.wind_speed = g.wind_speed,
                         !.humidity = Min(100, cond.humidity + 15)]

\* _generate_disaster, "Create disaster event"
NewDisasterEvent(counter, g) ==
    [event_id              |-> FormatEventId(counter),
     disaster_type         |-> g.disaster_type,
     location              |-> g.location,
     severity              |-> g.severity,
     casualties            |-> g.casualties,
     infrastructure_damage |-> g.infrastructure_damage,
     resources_needed      |-> g.resources_needed]

\* GenerateDisaster that numbers the event by its place in the list
GenerateDisaster_IdFromLength(env, g) ==
    LET counter == env.event_counter + 1
    IN  [event_counter      |-> counter,
         current_conditions |->
            [env.current_conditions EXCEPT ![g.location] = DisasterSideEffect(@, g)],
         active_disasters   |->
            Append(env.active_disasters,
                   NewDisasterEvent(Len(env.active_disasters) + 1, g))]

\* _generate_disaster on the environment env = [event_counter, active_disasters,
\* current_conditions]
GenerateDisaster(env, g) ==
    LET counter == env.event_counter + 1
    IN  [event_counter      |-> counter,
         current_conditions |->
            [env.current_conditions EXCEPT ![g.location] = DisasterSideEffect(@, g)],
         active_disasters   |->
            Append(env.active_disasters, NewDisasterEvent(counter, g))]

\* ResetCondition with the FLOOD branch lost
ResetCondition_NoFloodReset(cond, disaster) ==
    CASE disaster.disaster_type = "FIRE"       -> [cond EXCEPT !.smoke_detected = FALSE]
      [] disaster.disaster_type = "EARTHQUAKE" -> [cond EXCEPT !.seismic_activity = 0]
      [] OTHER -> cond

\* ResetCondition that also undoes what a STORM set
ResetCondition_StormResetsWind(cond, disaster) ==
    CASE disaster.disaster_type = "FLOOD"      -> [cond EXCEPT !.water_level = 0]
      [] disaster.disaster_type = "FIRE"       -> [cond EXCEPT !.smoke_detected = FALSE]
      [] disaster.disaster_type = "EARTHQUAKE" -> [cond EXCEPT !.seismic_activity = 0]
      [] disaster.disaster_type = "STORM"      -> [cond EXCEPT !.wind_speed = 0]
      [] OTHER -> cond

\* _update_disasters, "Reset environmental conditions" for one resolved disaster
ResetCondition(cond, disaster) ==
    CASE disaster.disaster_type = "FLOOD"      -> [cond EXCEPT !.water_level = 0]
      [] disaster.disaster_type = "FIRE"       -> [cond EXCEPT !.smoke_detected = FALSE]
      [] disaster.disaster_type = "EARTHQUAKE" -> [cond EXCEPT !.seismic_activity = 0]
      [] OTHER -> cond

\* _update_disasters, first loop: `resolve` is the set of positions of
\* active_disasters whose draw random.random() < 0.20 succeeded.  Yields the
\* conditions and the list disasters_to_remove after the first i positions.
RECURSIVE ResolveLoop(_, _, _, _)
ResolveLoop(conds, disasters, resolve, i) ==
    IF i = 0 THEN [current_conditions |-> conds, disasters_to_remove |-> <<>>]
    ELSE LET prev == ResolveLoop(conds, disasters, resolve, i - 1)
             disaster == disasters[i]
         IN  IF i \in resolve
             THEN [current_conditions |->
                      [prev.current_conditions EXCEPT
                          ![disaster.location] = ResetCondition(@, disaster)],
                   disasters_to_remove |-> Append(prev.disasters_to_remove, disaster)]
             ELSE prev

\* list.remove(x): drops the first element equal to x
RECURSIVE ListRemove(_, _)
ListRemove(list, x) ==
    IF list = <<>> THEN <<>>
    ELSE IF Head(list) = x THEN Tail(list)
    ELSE <<Head(list)>> \o ListRemove(Tail(list), x)

\* _update_disasters, second loop
RECURSIVE RemoveAll(_, _)
RemoveAll(list, toRemove) ==
    IF toRemove = <<>> THEN list
    ELSE RemoveAll(ListRemove(list, Head(toRemove)), Tail(toRemove))

\* _update_disasters
UpdateDisasters(env, resolve) ==
    LET r == ResolveLoop(env.current_conditions, env.active_disasters, resolve,
                         Len(env.active_disasters))
    IN  [event_counter       |-> env.event_counter,
         current_conditions  |-> r.current_conditions,
         active_disasters    |-> RemoveAll(env.active_disasters, r.disasters_to_remove),
         disasters_to_remove |-> r.disasters_to_remove]

\* Sense that returns every active disaster, whatever its location
Sense_NoFilter(env, location) ==
    LET cond == env.current_conditions[location]
    IN  [location         |-> location,
         temperature      |-> cond.temperature,
         humidity         |-> cond.humidity,
         wind_speed       |-> cond.wind_speed,
         air_quality      |-> cond.air_quality,
         seismic_activity |-> cond.seismic_activity,
         water_level      |-> cond.water_level,
         smoke_detected   |-> cond.smoke_detected,
         active_disasters |-> env.active_disasters]

\* sense
Sense(env, location) ==
    LET cond == env.current_conditions[location]
    IN  [location         |-> location,
         temperature      |-> cond.temperature,
         humidity         |-> cond.humidity,
         wind_speed       |-> cond.wind_speed,
         air_quality      |-> cond.air_quality,
         seismic_activity |-> cond.seismic_activity,
         water_level      |-> cond.water_level,
         smoke_detected   |-> cond.smoke_detected,
         active_disasters |-> SelectSeq(env.active_disasters,
                                        LAMBDA d : d.location = location)]

\* get_all_percepts
GetAllPercepts(env) == [i \in 1..Len(locations) |-> Sense(env, locations[i])]

\* update_environment up to the call of _update_disasters.  dr.spawn is the
\* outcome of random.random() < 0.80.
BeforeUpdateDisasters(env, dr) ==
    LET drifted == [env EXCEPT !.current_conditions = UpdateBaseConditions(@, dr.drift)]
    IN  IF dr.spawn THEN GenerateDisaster(drifted, dr.generate) ELSE drifted

\* update_environment
UpdateEnvironment(env, dr, resolve) ==
    UpdateDisasters(BeforeUpdateDisasters(env, dr), resolve)

UpdateDrawOk(dr) ==
    /\ \A l \in LocationNames : DriftDrawOk(dr.drift[l])
    /\ dr.spawn => GenerateDrawOk(dr.generate)

Env == [event_counter      |-> event_counter,
        active_disasters   |-> active_disasters,
        current_conditions |-> current_conditions]

----------------------------------------------------------------------------
(* lab3_goal_event_fsm_agent.py: GoalReactiveResponseAgent *)

ResponseState == {"MONITORING", "ASSESSING", "DISPATCHING", "RECOVERY"}

\* the agent is the record ag = [state, trace, transition_history]

\* _log: the entry is kept as the message, a tuple whose head names its kind
Log(ag, message) == [ag EXCEPT !.trace = Append(@, message)]

\* SwitchState that changes the state without a TransitionRecord
SwitchState_NoRecord(ag, new_state, reason) ==
    LET old_state == ag.state
    IN  IF old_state = new_state THEN ag
        ELSE Log([ag EXCEPT !.state = new_state],
                 <<"STATE", old_state, new_state, reason>>)

\* _switch_state
SwitchState(ag, new_state, reason) ==
    LET old_state == ag.state
    IN  IF old_state = new_state THEN ag
        ELSE Log([ag EXCEPT
                     !.state = new_state,
                     !.transition_history =
                         Append(@, [from |-> old_state, to |-> new_state,
                                    reason |-> reason])],
                 <<"STATE", old_state, new_state, reason>>)

\* DeriveDisaster that never records the id in the seen-set
DeriveDisaster_NoAdd(acc, location, disaster) ==
    LET new == disaster.event_id \notin acc.seen
        e1 == IF new
              THEN Append(acc.events, [type |-> "DISASTER_DETECTED",
                                       location |-> location, disaster |-> disaster])
              ELSE acc.events
        e2 == IF disaster.severity >= CRITICAL
              THEN Append(e1, [type |-> "SEVERITY_ESCALATION",
                               location |-> location, disaster |-> disaster])
              ELSE e1
        e3 == IF disaster.resources_needed.rescue_teams >= 12
              THEN Append(e2, [type |-> "RESOURCE_SHORTAGE",
                               location |-> location, disaster |-> disaster])
              ELSE e2
    IN  [events |-> e3, seen |-> acc.seen]

\* DeriveDisaster with the last two rules swapped
DeriveDisaster_ShortageFirst(acc, location, disaster) ==
    LET new == disaster.event_id \notin acc.seen
        e1 == IF new
              THEN Append(acc.events, [type |-> "DISASTER_DETECTED",
                                       location |-> location, disaster |-> disaster])
              ELSE acc.events
        e2 == IF disaster.resources_needed.rescue_teams >= 12
              THEN Append(e1, [type |-> "RESOURCE_SHORTAGE",
                               location |-> location, disaster |-> disaster])
              ELSE e1
        e3 == IF disaster.severity >= CRITICAL
              THEN Append(e2, [type |-> "SEVERITY_ESCALATION",
                               location |-> location, disaster |-> disaster])
              ELSE e2
    IN  [events |-> e3,
         seen   |-> IF new THEN acc.seen \cup {disaster.event_id} ELSE acc.seen]

\* DeriveDisaster that reports an escalation only for a disaster not seen before
DeriveDisaster_EscalationWhenNew(acc, location, disaster) ==
    LET new == disaster.event_id \notin acc.seen
        e1 == IF new
              THEN Append(acc.events, [type |-> "DISASTER_DETECTED",
                                       location |-> location, disaster |-> disaster])
              ELSE acc.events
        e2 == IF new /\ disaster.severity >= CRITICAL
              THEN Append(e1, [type |-> "SEVERITY_ESCALATION",
                               location |-> location, disaster |-> disaster])
              ELSE e1
        e3 == IF disaster.resources_needed.rescue_teams >= 12
              THEN Append(e2, [type |-> "RESOURCE_SHORTAGE",
                               location |-> location, disaster |-> disaster])
              ELSE e2
    IN  [events |-> e3,
         seen   |-> IF new THEN acc.seen \cup {disaster.event_id} ELSE acc.seen]

\* DeriveDisaster whose shortage rule needs more than 12 rescue teams
DeriveDisaster_ShortageAboveTwelve(acc, location, disaster) ==
    LET new == disaster.event_id \notin acc.seen
        e1 == IF new
              THEN Append(acc.events, [type |-> "DISASTER_DETECTED",
                                       location |-> location, disaster |-> disaster])
              ELSE acc.events
        e2 == IF disaster.severity >= CRITICAL
              THEN Append(e1, [type |-> "SEVERITY_ESCALATION",
                               location |-> location, disaster |-> disaster])
              ELSE e1
        e3 == IF disaster.resources_needed.rescue_teams > 12
              THEN Append(e2, [type |-> "RESOURCE_SHORTAGE",
                               location |-> location, disaster |-> disaster])
              ELSE e2
    IN  [events |-> e3,
         seen   |-> IF new THEN acc.seen \cup {disaster.event_id} ELSE acc.seen]

\* _derive_events, the body of "for disaster in percept.active_disasters";
\* acc = [events, seen]
DeriveDisaster(acc, location, disaster) ==
    LET new == disaster.event_id \notin acc.seen
        e1 == IF new
              THEN Append(acc.events, [type |-> "DISASTER_DETECTED",
                                       location |-> location, disaster |-> disaster])
              ELSE acc.events
        e2 == IF disaster.severity >= CRITICAL
              THEN Append(e1, [type |-> "SEVERITY_ESCALATION",
                               location |-> location, disaster |-> disaster])
              ELSE e1
        e3 == IF disaster.resources_needed.rescue_teams >= 12
              THEN Append(e2, [type |-> "RESOURCE_SHORTAGE",
                               location |-> location, disaster |-> disaster])
              ELSE e2
    IN  [events |-> e3,
         seen   |-> IF new THEN acc.seen \cup {disaster.event_id} ELSE acc.seen]

\* _derive_events, the loop over the first i disasters of one percept
RECURSIVE DeriveDisasters(_, _, _, _)
DeriveDisasters(acc, location, disasters, i) ==
    IF i = 0 THEN acc
    ELSE DeriveDisaster(DeriveDisasters(acc, location, disasters, i - 1),
                        location, disasters[i])

\* DerivePercept whose temperature rule needs more than 42 degrees
DerivePercept_SpikeAboveThreshold(acc, percept) ==
    LET e1 == IF percept.temperature > 42
              THEN Append(acc.events, [type |-> "TEMP_SPIKE",
                                       location |-> percept.location])
              ELSE acc.events
        e2 == IF percept.water_level >= 15
              THEN Append(e1, [type |-> "WATER_RISE", location |-> percept.location])
              ELSE e1
    IN  DeriveDisasters([events |-> e2, seen |-> acc.seen], percept.location,
                        percept.active_disasters, Len(percept.active_disasters))

\* _derive_events, the body of "for percept in percepts"
DerivePercept(acc, percept) ==
    LET e1 == IF percept.temperature >= 42
              THEN Append(acc.events, [type |-> "TEMP_SPIKE",
                                       location |-> percept.location])
              ELSE acc.events
        e2 == IF percept.water_level >= 15
              THEN Append(e1, [type |-> "WATER_RISE", location |-> percept.location])
              ELSE e1
    IN  DeriveDisasters([events |-> e2, seen |-> acc.seen], percept.location,
                        percept.active_disasters, Len(percept.active_disasters))

\* _derive_events, the loop over the first i percepts
RECURSIVE DerivePercepts(_, _, _)
DerivePercepts(ps, seen, i) ==
    IF i = 0 THEN [events |-> <<>>, seen |-> seen]
    ELSE DerivePercept(DerivePercepts(ps, seen, i - 1), ps[i])

\* _derive_events: the derived events and the updated last_handled_event_ids
DeriveEvents(ps, seen) == DerivePercepts(ps, seen, Len(ps))

\* "disaster" in event
HasDisaster(event) == "disaster" \in DOMAIN event

\* the key of _prioritize_disaster, and Python's tuple comparison a > b
PriorityKey(disaster) ==
    <<disaster.severity, disaster.casualties, disaster.infrastructure_damage>>

\* KeyGreater with casualties compared before severity
KeyGreater_CasualtiesFirst(a, b) ==
    \/ a[2] > b[2]
    \/ a[2] = b[2] /\ a[1] > b[1]
    \/ a[2] = b[2] /\ a[1] = b[1] /\ a[3] > b[3]

KeyGreater(a, b) ==
    \/ a[1] > b[1]
    \/ a[1] = b[1] /\ a[2] > b[2]
    \/ a[1] = b[1] /\ a[2] = b[2] /\ a[3] > b[3]

\* max(list, key=...) over the first i elements of a non-empty list: the
\* running maximum is replaced only by a strictly greater element
RECURSIVE MaxByKey(_, _)
MaxByKey(list, i) ==
    IF i = 1 THEN list[1]
    ELSE LET best == MaxByKey(list, i - 1)
         IN  IF KeyGreater(PriorityKey(list[i]), PriorityKey(best))
             THEN list[i] ELSE best

\* [event["disaster"] for event in events if "disaster" in event]
RECURSIVE EventDisasters(_)
EventDisasters(evs) ==
    IF evs = <<>> THEN <<>>
    ELSE IF HasDisaster(Head(evs))
         THEN <<Head(evs).disaster>> \o EventDisasters(Tail(evs))
         ELSE EventDisasters(Tail(evs))

\* _prioritize_disaster: <<>> is None
PrioritizeDisaster(evs) ==
    CHOOSE priority \in
        {IF disasters = <<>> THEN <<>> ELSE <<MaxByKey(disasters, Len(disasters))>>
            : disasters \in {EventDisasters(evs)}} : TRUE

\* _react, "for event in events: self._log(...)"
RECURSIVE LogEvents(_, _, _)
LogEvents(ag, evs, i) ==
    IF i = 0 THEN ag
    ELSE Log(LogEvents(ag, evs, i - 1), <<"EVENT", evs[i].type, evs[i].location>>)

\* _react, "if self.state == ResponseState.MONITORING"
ReactMonitoring(ag) ==
    IF ag.state = "MONITORING"
    THEN SwitchState(ag, "ASSESSING", "Disaster-related event detected")
    ELSE ag

\* ReactAssessing that stays in ASSESSING until there is a disaster to assess
ReactAssessing_WaitsForDisaster(ag, prio) ==
    IF ag.state = "ASSESSING" /\ prio # <<>>
    THEN SwitchState(Log(ag, <<"Assessment", prio[1].disaster_type,
                               prio[1].location, prio[1].severity>>),
                     "DISPATCHING", "Assessment complete")
    ELSE ag

\* _react, "if self.state == ResponseState.ASSESSING"
ReactAssessing(ag, prio) ==
    IF ag.state = "ASSESSING"
    THEN LET a == IF prio # <<>>
                  THEN Log(ag, <<"Assessment", prio[1].disaster_type,
                                 prio[1].location, prio[1].severity>>)
                  ELSE ag
         IN  SwitchState(a, "DISPATCHING", "Assessment complete")
    ELSE ag

\* _react, "if self.state == ResponseState.DISPATCHING"
ReactDispatching(ag, prio) ==
    IF ag.state = "DISPATCHING"
    THEN LET a == IF prio # <<>>
                  THEN Log(Log(Log(ag,
                           <<"Dispatch", prio[1].resources_needed.rescue_teams,
                             prio[1].resources_needed.medical_kits, prio[1].location>>),
                           <<"Goal Alignment", "rescue_people">>),
                           <<"Goal Alignment", "optimize_resources">>)
                  ELSE ag
         IN  SwitchState(a, "RECOVERY", "Initial dispatch actions completed")
    ELSE ag

\* ReactRecovery that downgrades only below MODERATE
ReactRecovery_BelowModerate(ag, prio) ==
    IF ag.state = "RECOVERY" /\ prio # <<>>
    THEN IF prio[1].severity < MODERATE
         THEN SwitchState(Log(ag, <<"Recovery", "stabilizing">>),
                          "MONITORING", "Disaster impact under control")
         ELSE SwitchState(Log(Log(ag, <<"Recovery", "containment">>),
                              <<"Goal Alignment", "stabilize_infrastructure">>),
                          "MONITORING", "Return to monitor after recovery cycle")
    ELSE ag

\* _react, "if self.state == ResponseState.RECOVERY"
ReactRecovery(ag, prio) ==
    IF ag.state = "RECOVERY" /\ prio # <<>>
    THEN IF prio[1].severity <= MODERATE
         THEN SwitchState(Log(ag, <<"Recovery", "stabilizing">>),
                          "MONITORING", "Disaster impact under control")
         ELSE SwitchState(Log(Log(ag, <<"Recovery", "containment">>),
                              <<"Goal Alignment", "stabilize_infrastructure">>),
                          "MONITORING", "Return to monitor after recovery cycle")
    ELSE ag

\* React without the early return of the empty-events branch
React_NoReturn(ag, evs) ==
    LET a0 == IF evs = <<>>
              THEN Log(IF ag.state # "MONITORING"
                       THEN SwitchState(ag, "MONITORING", "No active trigger events")
                       ELSE ag,
                       <<"Action", "Continue periodic monitoring">>)
              ELSE ag
        prio == PrioritizeDisaster(evs)
    IN  ReactRecovery(
            ReactDispatching(
                ReactAssessing(
                    ReactMonitoring(LogEvents(a0, evs, Len(evs))), prio), prio), prio)

\* React that keeps the state when there are no events
React_NoForcedReturn(ag, evs) ==
    IF evs = <<>>
    THEN Log(ag, <<"Action", "Continue periodic monitoring">>)
    ELSE LET prio == PrioritizeDisaster(evs)
         IN  ReactRecovery(
                 ReactDispatching(
                     ReactAssessing(
                         ReactMonitoring(LogEvents(ag, evs, Len(evs))), prio), prio), prio)

\* _react; the four if-blocks run one after the other, each on the agent
\* the one before left (logged, monitoring, assessing, dispatching)
React(ag, evs) ==
    IF evs = <<>>
    THEN Log(IF ag.state # "MONITORING"
             THEN SwitchState(ag, "MONITORING", "No active trigger events")
             ELSE ag,
             <<"Action", "Continue periodic monitoring">>)
    ELSE CHOOSE after \in
            UNION {UNION {UNION {UNION {
                {ReactRecovery(dispatching, prio)
                    : dispatching \in {ReactDispatching(assessing, prio)}}
                    : assessing \in {ReactAssessing(monitoring, prio)}}
                    : monitoring \in {ReactMonitoring(logged)}}
                    : logged \in {LogEvents(ag, evs, Len(evs))}}
                    : prio \in {PrioritizeDisaster(evs)}} : TRUE

Agent == [state |-> state, trace |-> trace, transition_history |-> transition_history]

\* _save_trace: what is written to the trace file
SaveTrace(ag) == <<[transitions |-> ag.transition_history, trace |-> ag.trace]>>

----------------------------------------------------------------------------
(* lab2_sensor_agent.py: SensorAgent *)

\* main: one sensor for each of environment.locations[:3]
MonitoredLocations == SubSeq(locations, 1, 3)

\* SensorAgent.__init__, and its monitoring task before it first runs.
\* pc: "created", "loop" (at the while test), "resolve" (in
\* update_environment, at the call of _update_disasters), "perceive",
\* "analyze", "sleep" (at await asyncio.sleep), "done".
\* percept: the local of monitor_continuously, <<>> or <<percept>>.
NewSensor(location) ==
    [location        |-> location,
     is_running      |-> FALSE,
     sensor_readings |-> <<>>,
     detected_events |-> <<>>,
     events_file     |-> <<>>,
     alerts          |-> <<>>,
     pc              |-> "created",
     iteration       |-> 0,
     percept         |-> <<>>]

\* raise_alert: the alert level
AlertLevel(disaster) == IF disaster.severity >= 4 THEN "CRITICAL" ELSE "WARNING"

\* AnalyzeDisaster without the test "disaster not in self.detected_events"
AnalyzeDisaster_NoMembershipTest(sensor, disaster) ==
    [sensor EXCEPT
        !.detected_events = Append(@, disaster),
        !.events_file = Append(@, disaster.event_id),
        !.alerts = Append(@, <<AlertLevel(disaster), disaster.event_id>>)]

\* analyze_percept, the body of "for disaster in percept.active_disasters"
AnalyzeDisaster(sensor, disaster) ==
    IF \A i \in DOMAIN sensor.detected_events : sensor.detected_events[i] # disaster
    THEN [sensor EXCEPT
             !.detected_events = Append(@, disaster),
             !.events_file = Append(@, disaster.event_id),
             !.alerts = Append(@, <<AlertLevel(disaster), disaster.event_id>>)]
    ELSE sensor

\* analyze_percept, the loop over the first i disasters of the percept
RECURSIVE AnalyzeDisasters(_, _, _)
AnalyzeDisasters(sensor, disasters, i) ==
    IF i = 0 THEN sensor
    ELSE AnalyzeDisaster(AnalyzeDisasters(sensor, disasters, i - 1), disasters[i])

\* analyze_percept
AnalyzePercept(sensor, percept) ==
    AnalyzeDisasters([sensor EXCEPT !.sensor_readings = Append(@, percept)],
                     percept.active_disasters, Len(percept.active_disasters))

----------------------------------------------------------------------------
(* The draws a specification explores *)

\* one location's drift draws, all four by the same amount of their range
DriftBy(t, h, w, a) ==
    [temperature |-> t, humidity |-> h, wind_speed |-> w, air_quality |-> a]

NoDrift == [l \in LocationNames |-> DriftBy(0, 0, 0, 0)]
DriftUp == [l \in LocationNames |-> DriftBy(2, 5, 5, 10)]
DriftDown == [l \in LocationNames |-> DriftBy(-2, -5, -5, -10)]

ResourcesNeeded(kits, teams) ==
    [medical_kits |-> kits, food_packages |-> 50, water_bottles |-> 100,
     rescue_teams |-> teams]

Profile(severity, casualties, damage, kits, teams) ==
    [severity |-> severity, casualties |-> casualties,
     infrastructure_damage |-> damage, resources_needed |-> ResourcesNeeded(kits, teams)]

\* a profile with all four resource draws
FullProfile(severity, casualties, damage, kits, food, water, teams) ==
    [severity |-> severity, casualties |-> casualties,
     infrastructure_damage |-> damage,
     resources_needed |-> [medical_kits |-> kits, food_packages |-> food,
                           water_bottles |-> water, rescue_teams |-> teams]]

Flood(level) == [disaster_type |-> "FLOOD", water_level |-> level]
Fire(t, a) == [disaster_type |-> "FIRE", temperature |-> t, air_quality |-> a]
Earthquake(r) == [disaster_type |-> "EARTHQUAKE", seismic_activity |-> r]
Drought(t) == [disaster_type |-> "DROUGHT", temperature |-> t]
Storm(w) == [disaster_type |-> "STORM", wind_speed |-> w]

GenerateDraws(types, locs, profiles) ==
    {t @@ [location |-> l] @@ p : t \in types, l \in locs, p \in profiles}

UpdateDraws(drifts, gens) ==
    {[drift |-> d, spawn |-> FALSE] : d \in drifts}
        \cup {[drift |-> d, spawn |-> TRUE, generate |-> g] : d \in drifts, g \in gens}

\* the draws of _initialize_conditions, the same sample at every location
InitialDraws ==
    {[temperature |-> 30, humidity |-> 60, wind_speed |-> 15, air_quality |-> 100]}

\* Spec: the reactive agent; no drift, disasters that do and do not cross the
\* thresholds of _derive_events and _react
DrawsAgent ==
    UpdateDraws({NoDrift},
        GenerateDraws({Flood(15), Fire(30, 100), Earthquake(30)},
                      {"Accra", "Kumasi"},
                      {Profile(MODERATE, 10, 20, 10, 11), Profile(HIGH, 10, 20, 10, 12),
                       Profile(CRITICAL, 10, 20, 10, 11), Profile(CRITICAL, 10, 20, 10, 12)}))

\* SpecEnv: the environment; drift in both directions, every disaster type
DrawsEnv ==
    UpdateDraws({DriftUp, DriftDown},
        GenerateDraws({Flood(30), Fire(30, 300), Earthquake(30), Drought(5), Storm(50)},
                      {"Accra", "Kumasi"},
                      {Profile(HIGH, 10, 20, 10, 11)}))

\* SpecPrio: priority selection; disasters whose keys differ in the first,
\* the second or the third component, or not at all; every one of them
\* yields an event in every cycle (rescue_teams 12)
DrawsPrio ==
    UpdateDraws({NoDrift},
        GenerateDraws({Earthquake(30), Fire(30, 100)},
                      {"Accra", "Kumasi"},
                      {Profile(LOW, 5, 20, 10, 12), Profile(HIGH, 100, 20, 10, 12),
                       Profile(CRITICAL, 10, 20, 10, 12), Profile(HIGH, 10, 60, 10, 12),
                       Profile(HIGH, 100, 30, 10, 12)}))

\* SpecDerive: the thresholds of _derive_events; from 30 degrees a fire of
\* 11 or 12 degrees ends just below or at 42, a flood of 1.4 or 1.5 m just
\* below or at 1.5, severities and rescue teams on both sides of theirs; the
\* downward drift lets a location cool below 42 again
DrawsDerive ==
    UpdateDraws({NoDrift, DriftDown},
        GenerateDraws({Flood(14), Flood(15), Fire(11, 100), Fire(12, 100)},
                      {"Kumasi"},
                      {Profile(HIGH, 10, 20, 10, 11), Profile(HIGH, 10, 20, 10, 12),
                       Profile(CRITICAL, 10, 20, 10, 11)}))

\* SpecGen: the magnitude draws of _generate_disaster; samples at both ends
\* of every range, and samples one step outside a range, which
\* GenerateDrawOk rejects as values the draw cannot give
DrawsGen ==
    UpdateDraws({NoDrift},
        GenerateDraws({Earthquake(30), Storm(50)},
                      {"Accra", "Kumasi"},
                      {FullProfile(LOW, 0, 5, 10, 50, 100, 2),
                       FullProfile(LOW, 50, 20, 100, 500, 1000, 20),
                       FullProfile(HIGH, 75, 40, 50, 200, 500, 10),
                       FullProfile(CATASTROPHIC, 250, 100, 100, 500, 1000, 20),
                       FullProfile(CATASTROPHIC, 0, 25, 10, 50, 100, 2),
                       FullProfile(LOW, 51, 5, 10, 50, 100, 2),
                       FullProfile(LOW, -1, 5, 10, 50, 100, 2),
                       FullProfile(LOW, 0, 4, 10, 50, 100, 2),
                       FullProfile(LOW, 0, 21, 10, 50, 100, 2),
                       FullProfile(CATASTROPHIC, 250, 125, 10, 50, 100, 2),
                       FullProfile(HIGH, 75, 40, 9, 200, 500, 10),
                       FullProfile(HIGH, 75, 40, 101, 200, 500, 10),
                       FullProfile(HIGH, 75, 40, 50, 49, 500, 10),
                       FullProfile(HIGH, 75, 40, 50, 501, 500, 10),
                       FullProfile(HIGH, 75, 40, 50, 200, 99, 10),
                       FullProfile(HIGH, 75, 40, 50, 200, 1001, 10),
                       FullProfile(HIGH, 75, 40, 50, 200, 500, 1),
                       FullProfile(HIGH, 75, 40, 50, 200, 500, 21)}))

\* SpecSensors: the sensor agents; floods at two monitored locations
DrawsSensors ==
    UpdateDraws({NoDrift},
        GenerateDraws({Flood(15)}, {"Accra", "Kumasi"},
                      {Profile(CRITICAL, 10, 20, 10, 12)}))

\* SpecApi: the environment called directly; a flood and a fire at two
\* locations
DrawsApi ==
    UpdateDraws({NoDrift},
        GenerateDraws({Flood(15), Fire(12, 100)}, {"Accra", "Kumasi"},
                      {Profile(HIGH, 10, 20, 10, 11)}))

\* SpecRun: the run as a whole; ticks with and without a spawn, with an
\* event without a disaster (the fire resolved at once) and with disasters
DrawsRun ==
    UpdateDraws({NoDrift},
        GenerateDraws({Flood(15), Fire(30, 100)}, {"Kumasi"},
                      {Profile(MODERATE, 10, 20, 10, 11), Profile(CRITICAL, 10, 20, 10, 12)}))

----------------------------------------------------------------------------
(* State machine: GoalReactiveResponseAgent.run on a fresh environment *)

\* the state after construction, before run(cycles, interval_seconds) with
\* cycles one of cycle_counts and interval_seconds one of intervals
Fresh(cycle_counts, intervals, sensor_agents) ==
    /\ event_counter = 0
    /\ active_disasters = <<>>
    /\ \E d \in InitialDraws :
          /\ InitialDrawOk(d)
          /\ current_conditions = [l \in LocationNames |-> InitialCondition(d)]
    /\ spawned = <<>>
    /\ before_update_disasters =
          [event_counter |-> 0, active_disasters |-> <<>>,
           current_conditions |-> current_conditions]
    /\ disasters_to_remove = <<>>
    /\ state = "MONITORING"
    /\ trace = <<>>
    /\ transition_history = <<>>
    /\ last_handled_event_ids = {}
    /\ pc = "init"
    /\ cycles \in cycle_counts
    /\ cycle = 0
    /\ percepts = <<>>
    /\ events = <<>>
    /\ seen_before = {}
    /\ state_before = "MONITORING"
    /\ priority_disaster = <<>>
    /\ saved_trace = <<>>
    /\ interval_seconds \in intervals
    /\ sensors = sensor_agents
    /\ running = 0

\* lab3 main: no sensor agents
FreshRun(intervals) == Fresh({Cycles}, intervals, <<>>)

\* main: agent.run(cycles=8, interval_seconds=1)
Init == FreshRun({1})

\* run called with a negative, a zero or a positive interval
InitConfig == FreshRun({-1, 0, 1})

\* run, up to the for loop
RunStart ==
    /\ pc = "init"
    /\ pc' = "loop"
    /\ trace' = trace \o <<<<"Starting goal-driven reactive response agent">>,
                           <<"Initial state", state>>>>
    /\ UNCHANGED <<envVars, state, transition_history, last_handled_event_ids,
                   cycles, cycle, percepts, events, seen_before, state_before,
                   priority_disaster, saved_trace, interval_seconds, sensorVars>>

\* RunCycleFrom that takes the percepts before _update_disasters has run
RunCycleFrom_PerceiveBeforeResolve(dr, pre, post) ==
    \E der \in {DeriveEvents(GetAllPercepts(pre), last_handled_event_ids)} :
    \E ag \in {React(Log(Agent, <<"CYCLE", cycle + 1, cycles>>), der.events)} :
        /\ event_counter' = post.event_counter
        /\ active_disasters' = post.active_disasters
        /\ current_conditions' = post.current_conditions
        /\ spawned' = IF dr.spawn
                      THEN <<pre.active_disasters[Len(pre.active_disasters)]>>
                      ELSE <<>>
        /\ before_update_disasters' = pre
        /\ disasters_to_remove' = post.disasters_to_remove
        /\ percepts' = GetAllPercepts(pre)
        /\ events' = der.events
        /\ seen_before' = last_handled_event_ids
        /\ last_handled_event_ids' = der.seen
        /\ state_before' = state
        /\ priority_disaster' = IF der.events = <<>> THEN <<>>
                                ELSE PrioritizeDisaster(der.events)
        /\ state' = ag.state
        /\ trace' = ag.trace
        /\ transition_history' = ag.transition_history
        /\ cycle' = cycle + 1
        /\ UNCHANGED <<pc, cycles, saved_trace, interval_seconds, sensorVars>>

\* run, one iteration of the for loop (no await inside it up to the sleep).
\* asyncio.sleep(interval_seconds) returns for every number, a zero or
\* negative delay included, and changes nothing.
\* pre: the environment at the call of _update_disasters; post: after it.
RunCycleFrom(dr, pre, post) ==
    \E der \in {DeriveEvents(GetAllPercepts(post), last_handled_event_ids)} :
    \E ag \in {React(Log(Agent, <<"CYCLE", cycle + 1, cycles>>), der.events)} :
        /\ event_counter' = post.event_counter
        /\ active_disasters' = post.active_disasters
        /\ current_conditions' = post.current_conditions
        /\ spawned' = IF dr.spawn
                      THEN <<pre.active_disasters[Len(pre.active_disasters)]>>
                      ELSE <<>>
        /\ before_update_disasters' = pre
        /\ disasters_to_remove' = post.disasters_to_remove
        /\ percepts' = GetAllPercepts(post)
        /\ events' = der.events
        /\ seen_before' = last_handled_event_ids
        /\ last_handled_event_ids' = der.seen
        /\ state_before' = state
        /\ priority_disaster' = IF der.events = <<>> THEN <<>>
                                ELSE PrioritizeDisaster(der.events)
        /\ state' = ag.state
        /\ trace' = ag.trace
        /\ transition_history' = ag.transition_history
        /\ cycle' = cycle + 1
        /\ UNCHANGED <<pc, cycles, saved_trace, interval_seconds, sensorVars>>

\* CycleOver that tests the end of the loop after the iteration
CycleOver_OneMore(D) ==
    /\ pc = "loop"
    /\ cycle <= cycles
    /\ \E dr \in D :
          /\ UpdateDrawOk(dr)
          /\ \E pre \in {BeforeUpdateDisasters(Env, dr)} :
             \E resolve \in SUBSET (1..Len(pre.active_disasters)) :
             \E post \in {UpdateDisasters(pre, resolve)} :
                 RunCycleFrom(dr, pre, post)

\* the iteration, its draws taken from the set D; resolve is the set of
\* positions whose draw random.random() < 0.20 succeeds
CycleOver(D) ==
    /\ pc = "loop"
    /\ cycle < cycles
    /\ \E dr \in D :
          /\ UpdateDrawOk(dr)
          /\ \E pre \in {BeforeUpdateDisasters(Env, dr)} :
             \E resolve \in SUBSET (1..Len(pre.active_disasters)) :
             \E post \in {UpdateDisasters(pre, resolve)} :
                 RunCycleFrom(dr, pre, post)

\* run, after the for loop
RunFinish ==
    /\ pc = "loop"
    /\ cycle = cycles
    /\ pc' = "done"
    /\ saved_trace' = SaveTrace(Log(Agent, <<"Simulation completed">>))
    /\ trace' = trace \o <<<<"Simulation completed">>, <<"Execution trace saved">>>>
    /\ UNCHANGED <<envVars, state, transition_history, last_handled_event_ids,
                   cycles, cycle, percepts, events, seen_before, state_before,
                   priority_disaster, interval_seconds, sensorVars>>

Next == RunStart \/ CycleOver(DrawsAgent) \/ RunFinish
Spec == Init /\ [][Next]_vars

NextEnv == RunStart \/ CycleOver(DrawsEnv) \/ RunFinish
SpecEnv == Init /\ [][NextEnv]_vars

NextPrio == RunStart \/ CycleOver(DrawsPrio) \/ RunFinish
SpecPrio == Init /\ [][NextPrio]_vars

NextDerive == RunStart \/ CycleOver(DrawsDerive) \/ RunFinish
SpecDerive == Init /\ [][NextDerive]_vars

NextGen == RunStart \/ CycleOver(DrawsGen) \/ RunFinish
SpecGen == Init /\ [][NextGen]_vars

\* run called for no cycle, one cycle, ... Cycles cycles
InitAnyCycles == Fresh(0..Cycles, {1}, <<>>)

\* the run as a whole: the loop body returns and asyncio.sleep returns, so
\* a step that is possible is taken
NextRun == RunStart \/ CycleOver(DrawsRun) \/ RunFinish
SpecRun == InitAnyCycles /\ [][NextRun]_vars /\ WF_vars(NextRun)

\* run with any interval
SpecConfig == InitConfig /\ [][Next]_vars

----------------------------------------------------------------------------
(* State machine: lab2 main, asyncio.gather of the sensors'               *)
(* monitor_continuously(duration_seconds=20, interval_seconds=3).         *)
(* The event loop runs one task at a time; a task gives up the loop only  *)
(* at an await, and monitor_continuously has one: asyncio.sleep.          *)

\* the iterations all sensors have started
RECURSIVE Iterations(_)
Iterations(n) == IF n = 0 THEN 0 ELSE Iterations(n - 1) + sensors[n].iteration

InitSensors ==
    Fresh({0}, {3}, [s \in 1..Len(MonitoredLocations) |-> NewSensor(MonitoredLocations[s])])

\* the event loop starts the task of sensor s, the tasks of asyncio.gather
\* in the order of its arguments: monitor_continuously up to the while test
SensorStart(s) ==
    /\ running = 0
    /\ sensors[s].pc = "created"
    /\ \A t \in 1..(s - 1) : sensors[t].pc # "created"
    /\ running' = s
    /\ sensors' = [sensors EXCEPT ![s].is_running = TRUE, ![s].pc = "loop"]
    /\ UNCHANGED <<envVars, agentVars, runVars, interval_seconds>>

\* the while test succeeds; update_environment up to the call of
\* _update_disasters
SensorSpawn(s, D) ==
    /\ running = s
    /\ sensors[s].pc = "loop"
    /\ sensors[s].is_running
    /\ Iterations(Len(sensors)) < MaxIterations
    /\ \E dr \in D :
          /\ UpdateDrawOk(dr)
          /\ \E pre \in {BeforeUpdateDisasters(Env, dr)} :
                /\ event_counter' = pre.event_counter
                /\ active_disasters' = pre.active_disasters
                /\ current_conditions' = pre.current_conditions
                /\ spawned' = IF dr.spawn
                              THEN <<pre.active_disasters[Len(pre.active_disasters)]>>
                              ELSE <<>>
                /\ before_update_disasters' = pre
                /\ disasters_to_remove' = <<>>
    /\ sensors' = [sensors EXCEPT ![s].iteration = @ + 1, ![s].pc = "resolve"]
    /\ UNCHANGED <<agentVars, runVars, interval_seconds, running>>

\* _update_disasters, the end of update_environment
SensorResolve(s) ==
    /\ running = s
    /\ sensors[s].pc = "resolve"
    /\ \E resolve \in SUBSET (1..Len(active_disasters)) :
       \E post \in {UpdateDisasters(Env, resolve)} :
          /\ active_disasters' = post.active_disasters
          /\ current_conditions' = post.current_conditions
          /\ disasters_to_remove' = post.disasters_to_remove
    /\ sensors' = [sensors EXCEPT ![s].pc = "perceive"]
    /\ UNCHANGED <<event_counter, spawned, before_update_disasters,
                   agentVars, runVars, interval_seconds, running>>

\* percept = self.perceive()
SensorPerceive(s) ==
    /\ running = s
    /\ sensors[s].pc = "perceive"
    /\ sensors' = [sensors EXCEPT ![s].percept = <<Sense(Env, sensors[s].location)>>,
                                  ![s].pc = "analyze"]
    /\ UNCHANGED <<envVars, agentVars, runVars, interval_seconds, running>>

\* self.analyze_percept(percept), then await asyncio.sleep(interval_seconds):
\* the task gives up the event loop
SensorAnalyze(s) ==
    /\ running = s
    /\ sensors[s].pc = "analyze"
    /\ sensors' = [sensors EXCEPT
                      ![s] = [AnalyzePercept(@, @.percept[1]) EXCEPT !.pc = "sleep"]]
    /\ running' = 0
    /\ UNCHANGED <<envVars, agentVars, runVars, interval_seconds>>

\* SensorWake that resumes the task while another task is running
SensorWake_Preempting(s) ==
    /\ sensors[s].pc = "sleep"
    /\ running' = s
    /\ sensors' = [sensors EXCEPT ![s].pc = "loop"]
    /\ UNCHANGED <<envVars, agentVars, runVars, interval_seconds>>

\* the sleep is over and the event loop, free, resumes the task of sensor s
SensorWake(s) ==
    /\ running = 0
    /\ sensors[s].pc = "sleep"
    /\ running' = s
    /\ sensors' = [sensors EXCEPT ![s].pc = "loop"]
    /\ UNCHANGED <<envVars, agentVars, runVars, interval_seconds>>

\* the while test fails (duration_seconds have passed); is_running = False
\* and the task ends
SensorFinish(s) ==
    /\ running = s
    /\ sensors[s].pc = "loop"
    /\ sensors' = [sensors EXCEPT ![s].is_running = FALSE, ![s].pc = "done"]
    /\ running' = 0
    /\ UNCHANGED <<envVars, agentVars, runVars, interval_seconds>>

NextSensors ==
    \E s \in DOMAIN sensors :
        \/ SensorStart(s)
        \/ SensorSpawn(s, DrawsSensors)
        \/ SensorResolve(s)
        \/ SensorPerceive(s)
        \/ SensorAnalyze(s)
        \/ SensorWake(s)
        \/ SensorFinish(s)

SpecSensors == InitSensors /\ [][NextSensors]_vars

----------------------------------------------------------------------------
(* State machine: a caller of DisasterEnvironment that calls               *)
(* update_environment and sense in any order.  cycle counts its            *)
(* update_environment calls, percepts holds what its sense calls returned  *)
(* since the last of them.                                                 *)

\* environment.update_environment()
ApiUpdate(D) ==
    /\ pc = "init"
    /\ cycle < Cycles
    /\ \E dr \in D :
          /\ UpdateDrawOk(dr)
          /\ \E pre \in {BeforeUpdateDisasters(Env, dr)} :
             \E resolve \in SUBSET (1..Len(pre.active_disasters)) :
             \E post \in {UpdateDisasters(pre, resolve)} :
                /\ event_counter' = post.event_counter
                /\ active_disasters' = post.active_disasters
                /\ current_conditions' = post.current_conditions
                /\ spawned' = IF dr.spawn
                              THEN <<pre.active_disasters[Len(pre.active_disasters)]>>
                              ELSE <<>>
                /\ before_update_disasters' = pre
                /\ disasters_to_remove' = post.disasters_to_remove
    /\ cycle' = cycle + 1
    /\ percepts' = <<>>
    /\ UNCHANGED <<agentVars, pc, cycles, events, seen_before, state_before,
                   priority_disaster, saved_trace, interval_seconds, sensorVars>>

\* a sense that hands each disaster over once: it takes the disasters it
\* returns out of the Catalog
ApiSense_Consuming(location) ==
    /\ pc = "init"
    /\ Len(percepts) < MaxSenseCalls
    /\ percepts' = Append(percepts, Sense(Env, location))
    /\ active_disasters' = SelectSeq(active_disasters, LAMBDA d : d.location # location)
    /\ UNCHANGED <<event_counter, current_conditions, spawned,
                   before_update_disasters, disasters_to_remove, agentVars, pc,
                   cycles, cycle, events, seen_before, state_before, priority_disaster,
                   saved_trace, interval_seconds, sensorVars>>

\* environment.sense(location)
ApiSense(location) ==
    /\ pc = "init"
    /\ Len(percepts) < MaxSenseCalls
    /\ percepts' = Append(percepts, Sense(Env, location))
    /\ UNCHANGED <<envVars, agentVars, pc, cycles, cycle, events, seen_before,
                   state_before, priority_disaster, saved_trace,
                   interval_seconds, sensorVars>>

NextApi ==
    \/ ApiUpdate(DrawsApi)
    \/ \E location \in LocationNames : ApiSense(location)

SpecApi == Init /\ [][NextApi]_vars

----------------------------------------------------------------------------
(* Properties *)

SeqToSet(list) == {list[i] : i \in DOMAIN list}
Ids(list) == {list[i].event_id : i \in DOMAIN list}
Last(list) == list[Len(list)]

\* at least one iteration of the loop has completed
Ticked == cycle >= 1

\* C1: after every update_environment call every location's temperature is
\* in [20,45], humidity in [30,100], air quality in [0,500], wind speed >= 0
\* and water level >= 0, also when a disaster was spawned after the clamping.
C1_ConditionsWithinClampRanges ==
    \A l \in LocationNames :
        LET cond == current_conditions[l]
        IN  /\ cond.temperature \in 20..45
            /\ cond.humidity \in 30..100
            /\ cond.air_quality \in 0..500
            /\ cond.wind_speed >= 0
            /\ cond.water_level >= 0

\* C2: a _react invocation that starts in MONITORING with a non-empty event
\* list passes through ASSESSING, DISPATCHING, RECOVERY in that order and
\* returns in MONITORING.
C2_CascadeEndsInMonitoring ==
    (Ticked /\ state_before = "MONITORING" /\ events # <<>>) =>
        /\ state = "MONITORING"
        /\ Len(transition_history) >= 4
        /\ LET n == Len(transition_history)
           IN  [k \in 1..4 |-> <<transition_history[n - 4 + k].from,
                                 transition_history[n - 4 + k].to>>]
                 = << <<"MONITORING", "ASSESSING">>, <<"ASSESSING", "DISPATCHING">>,
                      <<"DISPATCHING", "RECOVERY">>, <<"RECOVERY", "MONITORING">> >>

\* C3: if the state is RECOVERY when a _react invocation starts (it was
\* RECOVERY when the previous one returned), it is MONITORING when the
\* invocation returns, whatever the events.
C3_RecoveryLastsOneTick ==
    (Ticked /\ state_before = "RECOVERY") => state = "MONITORING"

\* one iteration of the loop that starts in MONITORING and derives no event
C4_IdleTickStep ==
    (pc = "loop" /\ cycle' = cycle + 1 /\ state = "MONITORING" /\ events' = <<>>) =>
        /\ state' = "MONITORING"
        /\ transition_history' = transition_history
        /\ trace' = trace \o << <<"CYCLE", cycle', Cycles>>,
                                <<"Action", "Continue periodic monitoring">> >>

\* C4: the agent starts in MONITORING, and a _react invocation with no events
\* in MONITORING keeps the state, appends no TransitionRecord and adds only
\* the 'continue monitoring' line to the trace.
C4_IdleTickChangesNothing ==
    /\ (state = "MONITORING" /\ transition_history = <<>>)
    /\ [][C4_IdleTickStep]_vars

C4_Witness ==
    /\ Ticked /\ state_before = "MONITORING" /\ events = <<>>
    /\ state = "MONITORING"
    /\ Last(trace) = <<"Action", "Continue periodic monitoring">>

\* the disasters of the last percept batch
PerceivedDisasters ==
    UNION {SeqToSet(percepts[i].active_disasters) : i \in DOMAIN percepts}

DetectedCount(id) ==
    Cardinality({i \in DOMAIN events :
                    /\ events[i].type = "DISASTER_DETECTED"
                    /\ events[i].disaster.event_id = id})

\* C5: DISASTER_DETECTED is emitted exactly once per disaster id, in the
\* first derive call that perceives the disaster: a perceived disaster whose
\* id is not yet in the seen-set yields exactly one such event, one whose id
\* is in it yields none, every such event is about a perceived disaster, and
\* after the call the seen-set is the old one plus the perceived ids.
C5_DetectedOncePerDisaster ==
    /\ \A d \in PerceivedDisasters :
          DetectedCount(d.event_id) = IF d.event_id \in seen_before THEN 0 ELSE 1
    /\ \A i \in DOMAIN events :
          events[i].type = "DISASTER_DETECTED" => events[i].disaster \in PerceivedDisasters
    /\ last_handled_event_ids = seen_before \cup {d.event_id : d \in PerceivedDisasters}

C5_Witness ==
    /\ cycle = 2
    /\ \E d \in PerceivedDisasters :
          /\ d.event_id \in seen_before
          /\ DetectedCount(d.event_id) = 0
          /\ \E i \in DOMAIN events :
                events[i].type = "RESOURCE_SHORTAGE" /\ events[i].disaster = d

RuleRank(type) ==
    CASE type = "TEMP_SPIKE" -> 1
      [] type = "WATER_RISE" -> 2
      [] type = "DISASTER_DETECTED" -> 3
      [] type = "SEVERITY_ESCALATION" -> 4
      [] type = "RESOURCE_SHORTAGE" -> 5

LocationIndex(name) == CHOOSE i \in DOMAIN locations : locations[i] = name

\* C6 as claimed: events go location by location in registry order, and
\* within one location every event of an earlier rule precedes every event
\* of a later rule.
C6_RuleOrderWithinLocation ==
    \A i, j \in DOMAIN events :
        i < j =>
            \/ LocationIndex(events[i].location) < LocationIndex(events[j].location)
            \/ /\ events[i].location = events[j].location
               /\ RuleRank(events[i].type) <= RuleRank(events[j].type)

\* where an event stands within its location: TEMP_SPIKE, then WATER_RISE,
\* then the disasters of the percept in list order, each with its own events
\* in rule order
PlaceInLocation(e) ==
    IF HasDisaster(e)
    THEN LET ds == percepts[LocationIndex(e.location)].active_disasters
         IN  <<CHOOSE k \in DOMAIN ds : ds[k] = e.disaster, RuleRank(e.type)>>
    ELSE <<0, RuleRank(e.type)>>

OrderKey(e) == <<LocationIndex(e.location)>> \o PlaceInLocation(e)

TripleLess(a, b) ==
    \/ a[1] < b[1]
    \/ a[1] = b[1] /\ a[2] < b[2]
    \/ a[1] = b[1] /\ a[2] = b[2] /\ a[3] < b[3]

\* C6 amended: events go location by location in registry order; within one
\* location TEMP_SPIKE, then WATER_RISE, then disaster by disaster in Catalog
\* order, each disaster's events in the order DISASTER_DETECTED,
\* SEVERITY_ESCALATION, RESOURCE_SHORTAGE.
C6_OrderDisasterByDisaster ==
    /\ \A i \in DOMAIN events :
          /\ events[i].location \in LocationNames
          /\ HasDisaster(events[i]) <=> RuleRank(events[i].type) >= 3
          /\ HasDisaster(events[i]) =>
                events[i].disaster \in
                    SeqToSet(percepts[LocationIndex(events[i].location)].active_disasters)
    /\ \A i, j \in DOMAIN events :
          i < j => TripleLess(OrderKey(events[i]), OrderKey(events[j]))

\* two disasters at one location, the earlier one's later-rule event first
C6_Witness ==
    \E i, j \in DOMAIN events :
        /\ i < j
        /\ events[i].location = events[j].location
        /\ HasDisaster(events[i]) /\ HasDisaster(events[j])
        /\ events[i].disaster # events[j].disaster
        /\ RuleRank(events[i].type) > RuleRank(events[j].type)

\* the disasters this tick's events refer to, in derivation order
ReferencedDisasters ==
    LET with == SelectSeq(events, HasDisaster)
    IN  [k \in DOMAIN with |-> with[k].disaster]

PriorityLess(x, y) ==
    \/ x.severity < y.severity
    \/ /\ x.severity = y.severity
       /\ \/ x.casualties < y.casualties
          \/ /\ x.casualties = y.casualties
             /\ x.infrastructure_damage < y.infrastructure_damage

\* C7: priority selection returns, among the disasters the events refer to,
\* the lexicographically greatest in (severity, casualties, infrastructure
\* damage), the first such in derivation order, and none when no event
\* carries a disaster; a CRITICAL disaster with 10 casualties wins over a
\* HIGH one with 100.
C7_PriorityIsFirstLexicographicMax ==
    (Ticked /\ events # <<>>) =>
        LET ref == ReferencedDisasters
        IN  /\ ref = <<>> => priority_disaster = <<>>
            /\ ref # <<>> =>
                  \E k \in DOMAIN ref :
                      /\ priority_disaster = <<ref[k]>>
                      /\ \A m \in DOMAIN ref :
                            /\ ~PriorityLess(ref[k], ref[m])
                            /\ m < k => PriorityLess(ref[m], ref[k])
            /\ (\E k, m \in DOMAIN ref :
                    /\ ref[k].severity = CRITICAL /\ ref[k].casualties = 10
                    /\ ref[m].severity = HIGH /\ ref[m].casualties = 100)
                  => priority_disaster[1].severity >= CRITICAL

C7_Witness ==
    /\ Ticked
    /\ \E k, m \in DOMAIN ReferencedDisasters :
          /\ ReferencedDisasters[k].severity = CRITICAL
          /\ ReferencedDisasters[k].casualties = 10
          /\ ReferencedDisasters[m].severity = HIGH
          /\ ReferencedDisasters[m].casualties = 100
          /\ m < k
          /\ priority_disaster = <<ReferencedDisasters[k]>>

\* C8: after an update in which a FLOOD was spawned that is still in the
\* Catalog, the water level of its location is > 0 and sense of that location
\* contains it, also when another FLOOD there was resolved in the same tick.
C8_SpawnedFloodHasWater ==
    (Ticked /\ spawned # <<>> /\ spawned[1].disaster_type = "FLOOD"
        /\ spawned[1] \in SeqToSet(active_disasters)) =>
        /\ current_conditions[spawned[1].location].water_level > 0
        /\ spawned[1] \in SeqToSet(Sense(Env, spawned[1].location).active_disasters)

\* ids issued so far that are no longer in the Catalog
GoneIds == {FormatEventId(k) : k \in 1..event_counter} \ Ids(active_disasters)

\* what the last _update_disasters call left behind
C9_ResolvedState ==
    /\ \A i \in DOMAIN disasters_to_remove :
          LET d == disasters_to_remove[i]
              cond == current_conditions[d.location]
          IN  /\ d.event_id \notin Ids(active_disasters)
              /\ \A l \in LocationNames :
                    d.event_id \notin Ids(Sense(Env, l).active_disasters)
              /\ d.disaster_type = "FLOOD" => cond.water_level = 0
              /\ d.disaster_type = "FIRE" => cond.smoke_detected = FALSE
              /\ d.disaster_type = "EARTHQUAKE" => cond.seismic_activity = 0
    /\ active_disasters =
          SelectSeq(before_update_disasters.active_disasters,
                    LAMBDA d : d \notin SeqToSet(disasters_to_remove))

\* an id that has left the Catalog is in no sense result after the next step
C9_GoneStaysGone ==
    \A id \in GoneIds :
        \A l \in LocationNames :
            id \notin Ids(Sense([current_conditions |-> current_conditions',
                                 active_disasters |-> active_disasters'], l).active_disasters)

\* C9: a resolved disaster is removed from the Catalog, its id appears in no
\* later sense result, the fields it had set are reset at its location (water
\* level 0 for FLOOD, smoke flag false for FIRE, seismic activity 0 for
\* EARTHQUAKE), and every other disaster stays in the Catalog.
C9_ResolvedIsRemovedAndReset ==
    /\ []C9_ResolvedState
    /\ [][C9_GoneStaysGone]_vars

C9_Witness ==
    /\ \E i \in DOMAIN disasters_to_remove :
          /\ disasters_to_remove[i].disaster_type = "FLOOD"
          /\ before_update_disasters.current_conditions[
                 disasters_to_remove[i].location].water_level > 0
    /\ active_disasters # <<>>
    /\ Len(before_update_disasters.active_disasters) = 2

\* C10: _update_disasters changes neither temperature, humidity, wind speed
\* nor air quality of any location, no field of a location at which no
\* disaster was resolved, and not event_counter.
C10_ResolveLeavesDriftFields ==
    LET before == before_update_disasters
    IN  /\ event_counter = before.event_counter
        /\ \A l \in LocationNames :
              /\ current_conditions[l].temperature = before.current_conditions[l].temperature
              /\ current_conditions[l].humidity = before.current_conditions[l].humidity
              /\ current_conditions[l].wind_speed = before.current_conditions[l].wind_speed
              /\ current_conditions[l].air_quality = before.current_conditions[l].air_quality
              /\ (\A i \in DOMAIN disasters_to_remove : disasters_to_remove[i].location # l)
                    => current_conditions[l] = before.current_conditions[l]

\* a STORM and a FLOOD resolved in one call, at different locations
C10_Witness ==
    /\ \E i, j \in DOMAIN disasters_to_remove :
          /\ disasters_to_remove[i].disaster_type = "STORM"
          /\ disasters_to_remove[j].disaster_type = "FLOOD"
          /\ disasters_to_remove[i].location # disasters_to_remove[j].location
    /\ current_conditions # before_update_disasters.current_conditions

\* the number an event id was formatted from: the decimal value of the
\* digits after its "D"
RECURSIVE DigitsValue(_, _)
DigitsValue(digits, acc) ==
    IF digits = <<>> THEN acc
    ELSE DigitsValue(Tail(digits), 10 * acc + Head(digits))

IdNumber(id) == DigitsValue(Tail(id), 0)

\* the order of two event ids, by the counter value they carry
IdLess(a, b) == IdNumber(a) < IdNumber(b)

\* the ids issued so far
IssuedIds == {FormatEventId(k) : k \in 1..event_counter}

\* the Catalog is sorted by id, holds issued ids only, and the ids issued so
\* far are pairwise distinct
C11_CatalogSorted ==
    /\ \A i, j \in DOMAIN active_disasters :
          i < j => IdLess(active_disasters[i].event_id, active_disasters[j].event_id)
    /\ Ids(active_disasters) \subseteq IssuedIds
    /\ Cardinality(IssuedIds) = event_counter
    /\ spawned # <<>> => spawned[1].event_id = FormatEventId(event_counter)

\* a step spawns at most one disaster; a spawn adds one to the counter and
\* issues an id that was never issued and is greater than every id issued
C11_SpawnStep ==
    /\ event_counter' = IF cycle' # cycle /\ spawned' # <<>>
                        THEN event_counter + 1 ELSE event_counter
    /\ (cycle' # cycle /\ spawned' # <<>>) =>
          /\ spawned'[1].event_id \notin IssuedIds
          /\ \A id \in IssuedIds : IdLess(id, spawned'[1].event_id)

\* C11: disaster ids are strictly increasing in spawn order: each spawn adds
\* exactly one to the counter, all ids issued are pairwise distinct, the
\* Catalog is sorted by increasing id, and an id is not reused after its
\* disaster was resolved.
C11_IdsStrictlyIncrease ==
    /\ []C11_CatalogSorted
    /\ [][C11_SpawnStep]_vars

\* a disaster spawned after the first one was resolved
C11_Witness ==
    /\ event_counter = 2
    /\ spawned # <<>>
    /\ Ids(active_disasters) = {FormatEventId(2)}

\* C13: get_all_percepts returns one Percept per registered location, in
\* registration order; each Percept lists the Catalog entries of its
\* location in Catalog order, so every Catalog entry is in exactly one
\* Percept of the batch.
C13_OnePerceptPerLocation ==
    Ticked =>
        /\ Len(percepts) = Len(locations)
        /\ \A i \in DOMAIN percepts :
              /\ percepts[i].location = locations[i]
              /\ \A j \in DOMAIN percepts[i].active_disasters :
                    /\ percepts[i].active_disasters[j].location = locations[i]
                    /\ percepts[i].active_disasters[j] \in SeqToSet(active_disasters)
              /\ \A j, k \in DOMAIN percepts[i].active_disasters :
                    j < k => IdLess(percepts[i].active_disasters[j].event_id,
                                    percepts[i].active_disasters[k].event_id)
        /\ \A n \in DOMAIN active_disasters :
              Cardinality({p \in {<<i, j>> : i \in DOMAIN percepts, j \in 1..Len(active_disasters)} :
                              /\ p[2] <= Len(percepts[p[1]].active_disasters)
                              /\ percepts[p[1]].active_disasters[p[2]] = active_disasters[n]}) = 1

\* two disasters at the second location of the registry, none elsewhere
C13_Witness ==
    /\ Ticked
    /\ Len(active_disasters) = 2
    /\ Len(percepts[2].active_disasters) = 2

\* the number of events of one type about one disaster in the last batch
DisasterEventCount(type, disaster) ==
    Cardinality({i \in DOMAIN events :
                    /\ events[i].type = type
                    /\ HasDisaster(events[i])
                    /\ events[i].disaster = disaster})

\* the number of events of one type at one location in the last batch
LocationEventCount(type, location) ==
    Cardinality({i \in DOMAIN events :
                    /\ events[i].type = type
                    /\ events[i].location = location})

\* C14: in every derive call each perceived disaster of severity >= 4 yields
\* a SEVERITY_ESCALATION event, whether or not its id is in the seen-set,
\* and a disaster of severity <= 3 never yields one.
C14_EscalationEveryCall ==
    Ticked =>
        /\ \A d \in PerceivedDisasters :
              DisasterEventCount("SEVERITY_ESCALATION", d) = IF d.severity >= 4 THEN 1 ELSE 0
        /\ \A i \in DOMAIN events :
              events[i].type = "SEVERITY_ESCALATION" =>
                  /\ events[i].disaster \in PerceivedDisasters
                  /\ events[i].disaster.severity \in {CRITICAL, CATASTROPHIC}

\* a CRITICAL disaster seen in the call before yields the event again, next
\* to a new disaster of severity 3 that yields none
C14_Witness ==
    /\ cycle = 2
    /\ \E d \in PerceivedDisasters :
          /\ d.event_id \in seen_before
          /\ d.severity = CRITICAL
          /\ DisasterEventCount("SEVERITY_ESCALATION", d) = 1
    /\ \E d \in PerceivedDisasters :
          /\ d.severity = HIGH
          /\ DisasterEventCount("SEVERITY_ESCALATION", d) = 0

\* C15: a perceived disaster yields RESOURCE_SHORTAGE iff its rescue_teams
\* requirement is >= 12 (12 does, 11 does not), in every derive call in
\* which it is perceived, independently of the seen-set.
C15_ShortageIffTwelveTeams ==
    Ticked =>
        /\ \A d \in PerceivedDisasters :
              DisasterEventCount("RESOURCE_SHORTAGE", d) =
                  IF d.resources_needed.rescue_teams >= 12 THEN 1 ELSE 0
        /\ \A i \in DOMAIN events :
              events[i].type = "RESOURCE_SHORTAGE" =>
                  /\ events[i].disaster \in PerceivedDisasters
                  /\ events[i].disaster.resources_needed.rescue_teams >= 12

\* a disaster with 12 teams seen in the call before yields the event again,
\* next to one with 11 teams that yields none
C15_Witness ==
    /\ cycle = 2
    /\ \E d \in PerceivedDisasters :
          /\ d.event_id \in seen_before
          /\ d.resources_needed.rescue_teams = 12
          /\ DisasterEventCount("RESOURCE_SHORTAGE", d) = 1
    /\ \E d \in PerceivedDisasters :
          /\ d.resources_needed.rescue_teams = 11
          /\ DisasterEventCount("RESOURCE_SHORTAGE", d) = 0

\* C16: for every percept exactly one TEMP_SPIKE is emitted for its location
\* iff its temperature is >= 42, and exactly one WATER_RISE iff its water
\* level is >= 1.5 m; 42 and 1.5 themselves trigger.
C16_SpikeAndRiseThresholds ==
    Ticked =>
        \A i \in DOMAIN percepts :
            /\ LocationEventCount("TEMP_SPIKE", percepts[i].location) =
                  IF percepts[i].temperature >= 42 THEN 1 ELSE 0
            /\ LocationEventCount("WATER_RISE", percepts[i].location) =
                  IF percepts[i].water_level >= 15 THEN 1 ELSE 0

\* a location at exactly 42 degrees and 1.5 m with both events, whose
\* disasters are all in the seen-set already
C16_Witness ==
    /\ Ticked
    /\ \E i \in DOMAIN percepts :
          /\ percepts[i].temperature = 42
          /\ percepts[i].water_level = 15
          /\ LocationEventCount("TEMP_SPIKE", percepts[i].location) = 1
          /\ LocationEventCount("WATER_RISE", percepts[i].location) = 1
    /\ \E i \in DOMAIN percepts :
          /\ percepts[i].temperature < 42
          /\ LocationEventCount("TEMP_SPIKE", percepts[i].location) = 0

\* the kinds of the lines logged by an assessment or a dispatch
ActionKinds == {"Assessment", "Dispatch", "Goal Alignment", "Recovery"}

\* one iteration of the loop that derives no event outside MONITORING
C20_ForcedReturnStep ==
    (pc = "loop" /\ cycle' = cycle + 1 /\ state # "MONITORING" /\ events' = <<>>) =>
        /\ state' = "MONITORING"
        /\ transition_history' =
              Append(transition_history,
                     [from |-> state, to |-> "MONITORING",
                      reason |-> "No active trigger events"])
        /\ Len(trace') >= Len(trace)
        /\ SubSeq(trace', 1, Len(trace)) = trace
        /\ \A i \in (Len(trace) + 1)..Len(trace') : trace'[i][1] \notin ActionKinds

\* C20: a _react invocation with an empty event list outside MONITORING
\* changes the state to MONITORING and appends exactly one TransitionRecord,
\* from the previous state to MONITORING with the reason 'No active trigger
\* events'; it logs no assessment and no dispatch action.
C20_EmptyEventsForceMonitoring ==
    [][C20_ForcedReturnStep]_vars

\* the cycle after one that ended in RECOVERY derived no event
C20_Witness ==
    /\ Ticked /\ state_before = "RECOVERY" /\ events = <<>>
    /\ state = "MONITORING"
    /\ Last(transition_history) =
          [from |-> "RECOVERY", to |-> "MONITORING",
           reason |-> "No active trigger events"]

\* C19: every disaster in the Catalog has medical_kits in 10..100,
\* food_packages in 50..500, water_bottles in 100..1000, rescue_teams in
\* 2..20, casualties in 0..50 x severity and infrastructure damage in
\* 5 x severity..20 x severity, hence at most 100 percent.
C19_MagnitudesWithinBounds ==
    \A i \in DOMAIN active_disasters :
        LET d == active_disasters[i]
            r == d.resources_needed
        IN  /\ r.medical_kits >= 10 /\ r.medical_kits <= 100
            /\ r.food_packages >= 50 /\ r.food_packages <= 500
            /\ r.water_bottles >= 100 /\ r.water_bottles <= 1000
            /\ r.rescue_teams >= 2 /\ r.rescue_teams <= 20
            /\ d.casualties >= 0 /\ d.casualties <= 50 * d.severity
            /\ d.infrastructure_damage >= 5 * d.severity
            /\ d.infrastructure_damage <= 20 * d.severity
            /\ d.infrastructure_damage <= 100

\* a CATASTROPHIC disaster at the upper end of every range next to a LOW one
\* at the lower end of every range
C19_Witness ==
    /\ \E i \in DOMAIN active_disasters :
          /\ active_disasters[i].severity = CATASTROPHIC
          /\ active_disasters[i].casualties = 250
          /\ active_disasters[i].infrastructure_damage = 100
          /\ active_disasters[i].resources_needed.rescue_teams = 20
    /\ \E i \in DOMAIN active_disasters :
          /\ active_disasters[i].severity = LOW
          /\ active_disasters[i].casualties = 0
          /\ active_disasters[i].infrastructure_damage = 5
          /\ active_disasters[i].resources_needed.rescue_teams = 2

\* C17: a run configured with a negative interval duration fails at
\* construction: no tick is executed.
C17_NegativeIntervalFailsFast ==
    interval_seconds < 0 => cycle = 0

\* some task is inside update_environment, between the spawn step and the
\* call of _update_disasters
MidUpdate == \E t \in DOMAIN sensors : sensors[t].pc = "resolve"

\* a step in which a sensor's sense call returns
SenseStep ==
    \E s \in DOMAIN sensors : sensors[s].pc = "perceive" /\ sensors'[s].pc = "analyze"

\* a step in which a sensor enters update_environment
UpdateEntryStep ==
    \E s \in DOMAIN sensors : sensors[s].pc = "loop" /\ sensors'[s].pc = "resolve"

\* what a sense call returns is the state the last completed
\* update_environment left: no resolved disaster, every disaster of the
\* location that is in the Catalog
C18_SenseAfterWholeUpdate ==
    \A s \in DOMAIN sensors :
        (sensors[s].pc = "perceive" /\ sensors'[s].pc = "analyze") =>
            /\ sensors'[s].percept[1].active_disasters =
                  SelectSeq(active_disasters,
                            LAMBDA d : d.location = sensors[s].location)
            /\ \A i \in DOMAIN disasters_to_remove :
                  \A j \in DOMAIN sensors'[s].percept[1].active_disasters :
                      sensors'[s].percept[1].active_disasters[j] # disasters_to_remove[i]

\* C18: under any interleaving of the sensor agents' tasks no sense call
\* and no other update_environment call happens between the spawn step and
\* the resolve step of an update_environment call.
C18_UpdateAtomicForSense ==
    /\ [][(SenseStep \/ UpdateEntryStep) => ~MidUpdate]_vars
    /\ [][C18_SenseAfterWholeUpdate]_vars
    /\ [](\A s, t \in DOMAIN sensors :
            (sensors[s].pc = "resolve" /\ sensors[t].pc = "resolve") => s = t)

\* two sensors are past their first iteration, in either order, and the
\* second of them has sensed after an update that spawned and resolved
C18_Witness ==
    /\ \E s, t \in DOMAIN sensors :
          /\ s < t
          /\ sensors[s].iteration = 1
          /\ sensors[t].iteration = 2
          /\ sensors[t].pc = "analyze"
    /\ spawned # <<>>
    /\ disasters_to_remove # <<>>

\* a step that is one sense call
SenseCallStep == cycle' = cycle /\ Len(percepts') = Len(percepts) + 1

\* a sense call leaves the environment as it was, and returns what every
\* earlier call for the same location returned since the last update
C12_SenseStep ==
    SenseCallStep =>
        /\ current_conditions' = current_conditions
        /\ active_disasters' = active_disasters
        /\ event_counter' = event_counter
        /\ \A i \in DOMAIN percepts :
              percepts[i].location = Last(percepts').location =>
                  percepts[i] = Last(percepts')

\* C12: sense(location) is a pure read: it changes neither the conditions,
\* the Catalog nor the event counter, and two sense calls for one location
\* with no update_environment between them return the same percept
\* (timestamps are not modelled).
C12_SenseIsPureRead ==
    [][C12_SenseStep]_vars

\* the same location sensed twice in a row while it holds a disaster
C12_Witness ==
    /\ Len(percepts) >= 2
    /\ percepts[1].location = percepts[2].location
    /\ percepts[1].active_disasters # <<>>
    /\ percepts[2].active_disasters # <<>>
    /\ pc = "init"

\* C21: ASSESSING and DISPATCHING are transient: a record that enters
\* ASSESSING is followed at once by ASSESSING -> DISPATCHING and one that
\* enters DISPATCHING by DISPATCHING -> RECOVERY, so between _react
\* invocations the state is neither ASSESSING nor DISPATCHING.
C21_AssessingDispatchingTransient ==
    /\ state \notin {"ASSESSING", "DISPATCHING"}
    /\ \A i \in DOMAIN transition_history :
          /\ transition_history[i].to = "ASSESSING" =>
                /\ i < Len(transition_history)
                /\ transition_history[i + 1].from = "ASSESSING"
                /\ transition_history[i + 1].to = "DISPATCHING"
          /\ transition_history[i].to = "DISPATCHING" =>
                /\ i < Len(transition_history)
                /\ transition_history[i + 1].from = "DISPATCHING"
                /\ transition_history[i + 1].to = "RECOVERY"

\* a tick whose events name no disaster went through both states
C21_Witness ==
    /\ Ticked
    /\ state_before = "MONITORING"
    /\ events # <<>>
    /\ priority_disaster = <<>>
    /\ state = "RECOVERY"
    /\ Len(transition_history) >= 3
    /\ transition_history[Len(transition_history) - 1].from = "ASSESSING"
    /\ Last(transition_history).from = "DISPATCHING"

\* the lines the last iteration of the loop logged after its CYCLE line
TickLines ==
    LET c == CHOOSE i \in DOMAIN trace :
                 /\ trace[i][1] = "CYCLE"
                 /\ \A j \in DOMAIN trace : j > i => trace[j][1] # "CYCLE"
    IN  SubSeq(trace, c + 1, Len(trace))

\* C22: in every tick whose derived events refer to a disaster exactly one
\* dispatch line is logged, with the rescue teams, the medical kits and the
\* location of the prioritized disaster, after the assessment line and
\* before the transition to RECOVERY, whatever the state at the start of
\* the tick.
C22_OneDispatchPerDisasterTick ==
    (Ticked /\ \E i \in DOMAIN events : HasDisaster(events[i])) =>
        LET lines == TickLines
            prio  == PrioritizeDisaster(events)[1]
        IN  \E d \in DOMAIN lines :
                /\ lines[d] = <<"Dispatch", prio.resources_needed.rescue_teams,
                                prio.resources_needed.medical_kits, prio.location>>
                /\ \A e \in DOMAIN lines : lines[e][1] = "Dispatch" => e = d
                /\ \E a \in 1..(d - 1) : lines[a][1] = "Assessment"
                /\ \E r \in (d + 1)..Len(lines) :
                      /\ lines[r][1] = "STATE"
                      /\ lines[r][2] = "DISPATCHING"
                      /\ lines[r][3] = "RECOVERY"

\* the records a step appends to the transition history
NewRecords == SubSeq(transition_history', Len(transition_history) + 1,
                     Len(transition_history'))

\* one iteration of the loop that has a prioritized disaster
C23_RecoveryReasonStep ==
    (cycle' = cycle + 1 /\ priority_disaster' # <<>>) =>
        LET leaving == {i \in DOMAIN NewRecords : NewRecords[i].from = "RECOVERY"}
            severity == priority_disaster'[1].severity
        IN  /\ Cardinality(leaving) = 1
            /\ \A i \in leaving :
                  /\ NewRecords[i].to = "MONITORING"
                  /\ NewRecords[i].reason = "Disaster impact under control"
                        <=> severity <= 2
                  /\ NewRecords[i].reason = "Return to monitor after recovery cycle"
                        <=> severity >= 3

\* C23: a tick with a prioritized disaster appends exactly one record
\* RECOVERY -> MONITORING; its reason is 'Disaster impact under control' iff
\* the prioritized disaster's severity is <= 2 and 'Return to monitor after
\* recovery cycle' iff it is >= 3.
C23_RecoveryReasonBySeverity ==
    [][C23_RecoveryReasonStep]_vars

\* a MODERATE disaster prioritized in the first tick and a more severe one
\* in the second: both reasons are on record
C23_Witness ==
    /\ cycle = 2
    /\ priority_disaster # <<>>
    /\ priority_disaster[1].severity = HIGH
    /\ \E i \in DOMAIN transition_history :
          transition_history[i].reason = "Disaster impact under control"
    /\ Last(transition_history) =
          [from |-> "RECOVERY", to |-> "MONITORING",
           reason |-> "Return to monitor after recovery cycle"]

\* the edges of the state machine
Edges ==
    {<<"MONITORING", "ASSESSING">>, <<"ASSESSING", "DISPATCHING">>,
     <<"DISPATCHING", "RECOVERY">>, <<"RECOVERY", "MONITORING">>}

\* the transition history is a chain of edges from MONITORING to the
\* current state
C25_WellChained ==
    /\ \A i \in DOMAIN transition_history :
          /\ transition_history[i].from # transition_history[i].to
          /\ <<transition_history[i].from, transition_history[i].to>> \in Edges
          /\ i > 1 => transition_history[i].from = transition_history[i - 1].to
    /\ transition_history # <<>> =>
          /\ transition_history[1].from = "MONITORING"
          /\ Last(transition_history).to = state
    /\ transition_history = <<>> => state = "MONITORING"

\* a step keeps the records there are, and appends none when the state was
\* not changed on the way
C25_AppendOnly ==
    /\ Len(transition_history') >= Len(transition_history)
    /\ SubSeq(transition_history', 1, Len(transition_history)) = transition_history
    /\ state' # state => Len(transition_history') > Len(transition_history)

\* C25: the transition history is append-only and well-chained: records
\* are never changed or removed, no record has equal from- and to-state,
\* the first starts at MONITORING, each starts where the one before ended,
\* the last ends at the current state, and every record is one of the four
\* edges of the state machine.
C25_HistoryAppendOnlyAndChained ==
    /\ []C25_WellChained
    /\ [][C25_AppendOnly]_vars

\* a history that holds all four edges and the forced return
C25_Witness ==
    /\ \A e \in Edges : \E i \in DOMAIN transition_history :
          <<transition_history[i].from, transition_history[i].to>> = e
    /\ \E i \in DOMAIN transition_history :
          transition_history[i].reason = "No active trigger events"

\* after a tick the seen-set holds every Catalog id, and no id above the
\* event counter
C26_SeenCoversCatalog ==
    /\ Ticked => Ids(active_disasters) \subseteq last_handled_event_ids
    /\ \A id \in last_handled_event_ids : IdNumber(id) <= event_counter
    /\ \A id \in last_handled_event_ids : IdNumber(id) >= 1

\* the seen-set only grows, by ids of disasters that are in the Catalog
\* after the tick and are reported as DISASTER_DETECTED in it; a disaster
\* resolved by the call that spawned it is not among them
C26_SeenGrowsByCatalogIds ==
    /\ last_handled_event_ids \subseteq last_handled_event_ids'
    /\ (last_handled_event_ids' \ last_handled_event_ids) \subseteq Ids(active_disasters')
    /\ \A id \in last_handled_event_ids' \ last_handled_event_ids :
          \E i \in DOMAIN events' :
              /\ events'[i].type = "DISASTER_DETECTED"
              /\ events'[i].disaster.event_id = id
    /\ (cycle' = cycle + 1 /\ spawned' # <<>>) =>
          IF spawned'[1] \in SeqToSet(disasters_to_remove')
          THEN /\ spawned'[1].event_id \notin last_handled_event_ids'
               /\ \A i \in DOMAIN events' :
                     HasDisaster(events'[i]) => events'[i].disaster # spawned'[1]
          ELSE spawned'[1].event_id \in last_handled_event_ids' \ last_handled_event_ids

\* C26: in the run loop, after every tick the seen-set holds the id of
\* every disaster in the Catalog (a disaster that survives the tick that
\* spawned it is reported as DISASTER_DETECTED in that tick), the seen-set
\* only grows and never holds an id above the event counter, and a disaster
\* spawned and resolved in one update_environment call is never reported.
C26_SeenSetTracksCatalog ==
    /\ []C26_SeenCoversCatalog
    /\ [][C26_SeenGrowsByCatalogIds]_vars

\* the first disaster was resolved by the call that spawned it and is not
\* in the seen-set; the second survived and is
C26_Witness ==
    /\ cycle = 2
    /\ event_counter = 2
    /\ last_handled_event_ids = {FormatEventId(2)}
    /\ Ids(active_disasters) = {FormatEventId(2)}

\* a list without a repeated element
NoRepeat(list) == \A i, j \in DOMAIN list : list[i] = list[j] => i = j

\* each sensor has recorded, persisted and alerted every disaster at most
\* once, all three for the same disasters, all of its own location
C27_RecordedOnce ==
    \A s \in DOMAIN sensors :
        LET sensor == sensors[s]
        IN  /\ NoRepeat(sensor.detected_events)
            /\ NoRepeat([i \in DOMAIN sensor.detected_events |->
                            sensor.detected_events[i].event_id])
            /\ NoRepeat(sensor.events_file)
            /\ NoRepeat(sensor.alerts)
            /\ Len(sensor.events_file) = Len(sensor.detected_events)
            /\ Len(sensor.alerts) = Len(sensor.detected_events)
            /\ \A i \in DOMAIN sensor.detected_events :
                  /\ sensor.detected_events[i].location = sensor.location
                  /\ sensor.events_file[i] = sensor.detected_events[i].event_id
                  /\ sensor.alerts[i][2] = sensor.detected_events[i].event_id

\* a step keeps what each sensor has recorded
C27_DetectedOnlyGrows ==
    \A s \in DOMAIN sensors :
        /\ Len(sensors'[s].detected_events) >= Len(sensors[s].detected_events)
        /\ SubSeq(sensors'[s].detected_events, 1, Len(sensors[s].detected_events))
              = sensors[s].detected_events

\* C27: under any interleaving of the sensor agents that share the
\* environment, each SensorAgent records, persists and alerts a disaster at
\* most once, records only disasters at its own monitored location, and its
\* detected-events list only grows: a disaster stays recorded after the
\* environment resolved it.
C27_SensorRecordsEachDisasterOnce ==
    /\ []C27_RecordedOnce
    /\ [][C27_DetectedOnlyGrows]_vars

\* a sensor perceived one disaster in two readings, then the disaster was
\* resolved; it is recorded once and still recorded
C27_Witness ==
    \E s \in DOMAIN sensors :
        /\ Len(sensors[s].sensor_readings) = 3
        /\ Len(sensors[s].detected_events) = 1
        /\ sensors[s].sensor_readings[1].active_disasters = sensors[s].detected_events
        /\ sensors[s].sensor_readings[2].active_disasters = sensors[s].detected_events
        /\ sensors[s].sensor_readings[3].active_disasters = <<>>
        /\ active_disasters = <<>>
        /\ sensors[s].events_file = <<FormatEventId(1)>>

\* the positions of the CYCLE lines in a trace
CycleLines(lines) == {i \in DOMAIN lines : lines[i][1] = "CYCLE"}

\* the EVENT lines among the lines of the last tick, as the events they log
TickEventLines ==
    LET e == SelectSeq(TickLines, LAMBDA line : line[1] = "EVENT")
    IN  [i \in DOMAIN e |-> <<e[i][2], e[i][3]>>]

\* the run so far: no more ticks than asked for, one CYCLE line per tick in
\* order, the trace file written at the end only and holding every tick;
\* the percepts of the last tick are those of the environment it left, the
\* events are derived from them and _react logged those events
C24_RunState ==
    /\ cycle <= cycles
    /\ Cardinality(CycleLines(trace)) = cycle
    /\ \A k \in 1..cycle : \E i \in CycleLines(trace) :
          /\ trace[i] = <<"CYCLE", k, cycles>>
          /\ Cardinality({j \in CycleLines(trace) : j < i}) = k - 1
    /\ pc # "done" => saved_trace = <<>>
    /\ pc = "done" =>
          /\ cycle = cycles
          /\ Len(saved_trace) = 1
          /\ Cardinality(CycleLines(saved_trace[1].trace)) = cycles
          /\ saved_trace[1].transitions = transition_history
    /\ Ticked =>
          /\ Len(percepts) = Len(locations)
          /\ \A i \in DOMAIN percepts :
                /\ percepts[i].temperature = current_conditions[locations[i]].temperature
                /\ percepts[i].water_level = current_conditions[locations[i]].water_level
                /\ percepts[i].smoke_detected = current_conditions[locations[i]].smoke_detected
          /\ PerceivedDisasters = SeqToSet(active_disasters)
          /\ events = DeriveEvents(percepts, seen_before).events
          /\ TickEventLines = [i \in DOMAIN events |-> <<events[i].type, events[i].location>>]

\* C24: run(cycles, interval) terminates for every cycles >= 0 after exactly
\* cycles ticks, each tick in the order update_environment,
\* get_all_percepts, _derive_events, _react; the trace is saved only after
\* the last tick, and the derive and react of a tick see the environment
\* state that the tick's update produced.
C24_RunTerminatesAfterCyclesTicks ==
    /\ <>(pc = "done")
    /\ []C24_RunState

\* a run of Cycles ticks has ended, its last tick with a disaster
C24_Witness ==
    /\ pc = "done"
    /\ cycles = Cycles
    /\ cycle = Cycles
    /\ saved_trace # <<>>
    /\ active_disasters # <<>>

====
